---- MODULE Spec2Model ----
(***************************************************************************)
(* The in-memory User CRUD service of src/index.js as a state machine.     *)
(* One action per Express route handler; every request is handled          *)
(* synchronously and atomically (Node's single-threaded event loop, no     *)
(* await inside a handler).                                                *)
(***************************************************************************)
EXTENDS Integers, Sequences, FiniteSets

\* Number of randomUUID() calls explored (POST /users is cut off afterwards).
MaxIds == 3

\* The distinct identifiers crypto.randomUUID() hands out, in call order.
\* The handlers only ever compare ids with ===, so which 122 random bits a
\* call returns is irrelevant; what is modelled is that successive calls
\* return pairwise distinct non-empty strings.
UUIDs ==
  << "00000000-0000-4000-8000-000000000001",
     "00000000-0000-4000-8000-000000000002",
     "00000000-0000-4000-8000-000000000003",
     "00000000-0000-4000-8000-000000000004",
     "00000000-0000-4000-8000-000000000005" >>

\* ---------------------------------------------------------------------
\* JavaScript values that express.json() can put in a body field.
\* A value is a (type, repr) pair; repr is the JSON text of the value.
\* ---------------------------------------------------------------------
Undefined == [type |-> "undefined", repr |-> ""]

Null == [type |-> "null", repr |-> "null"]

Str(s) == [type |-> "string", repr |-> s]

Num(s) == [type |-> "number", repr |-> s]

Bool(s) == [type |-> "boolean", repr |-> s]

\* JavaScript ToBoolean, as used by the ! operator.
Truthy(v) ==
  CASE v.type = "undefined" -> FALSE
    [] v.type = "null"      -> FALSE
    [] v.type = "boolean"   -> v.repr = "true"
    [] v.type = "number"    -> v.repr \notin {"0", "-0", "NaN"}
    [] v.type = "string"    -> v.repr # ""
    [] OTHER                -> TRUE

\* Values tried for the name and email fields of a request body: the
\* falsy ones (absent, empty string, null, zero) and the truthy ones (two
\* texts each, and a number).
FalsyNames == {Undefined, Str(""), Null}

FalsyEmails == {Undefined, Str(""), Num("0")}

TruthyNames == {Str("Ada"), Str("Ada L.")}

TruthyEmails == {Str("ada@x.com"), Num("42")}

\* req.body: undefined when no JSON body was sent, else the parsed object.
NoBody == [kind |-> "undefined", name |-> Undefined, email |-> Undefined]

Obj(n, e) == [kind |-> "object", name |-> n, email |-> e]

\* Bodies passing the field check, and bodies failing it on one field.
Bodies ==
  {NoBody}
    \cup {Obj(n, e) : n \in TruthyNames, e \in TruthyEmails}
    \cup {Obj(n, Str("ada@x.com")) : n \in FalsyNames}
    \cup {Obj(Str("Ada"), e) : e \in FalsyEmails}

\* req.params.id: every uuid the run can generate, and a path segment no
\* user ever gets as its id.
PathIds ==
  {UUIDs[i] : i \in 1..MaxIds} \cup {"not-a-uuid"}

VARIABLES
  users,        \* the module-level array `users`
  uuidCalls,    \* how many times randomUUID() has been called
  req,          \* the request handled last
  res,          \* the response sent last
  created,      \* history: ids returned by a 201 POST
  deleted,      \* history: ids whose latest DELETE answered 204
  prevCreated   \* history: the user the preceding request created, if any

vars ==
  <<users, uuidCalls, req, res, created, deleted, prevCreated>>

\* ---------------------------------------------------------------------
\* Responses
\* ---------------------------------------------------------------------
Json(status, v) == [status |-> status, body |-> [kind |-> "json", json |-> v]]

Text(status, s) == [status |-> status, body |-> [kind |-> "text", text |-> s]]

Empty(status) == [status |-> status, body |-> [kind |-> "empty"]]

badRequest(msg) == Json(400, [error |-> msg])

notFound(msg) == Json(404, [error |-> msg])

NoRequest == [method |-> "NONE", id |-> "", body |-> NoBody]

Request(method, id, body) == [method |-> method, id |-> id, body |-> body]

NoUser == [none |-> TRUE]

\* ---------------------------------------------------------------------
\* Array helpers, 0-based as in JavaScript
\* ---------------------------------------------------------------------
\* users.findIndex(u => u.id === id): first matching index, or -1.
findIndex(us, id) ==
  IF \E i \in 1..Len(us) : us[i].id = id
  THEN (CHOOSE i \in 1..Len(us) :
          /\ us[i].id = id
          /\ \A j \in 1..(i - 1) : us[j].id # id) - 1
  ELSE -1

\* A plausible slip: find(u => u.id = id), an assignment, true of any user.
findFirst(us, id) == IF us = <<>> THEN NoUser ELSE us[1]

\* users.find(u => u.id === id): first matching element, or undefined.
find(us, id) ==
  IF findIndex(us, id) = -1 THEN NoUser ELSE us[findIndex(us, id) + 1]

\* const { name, email } = req.body || {}
destructure(body) ==
  IF body.kind = "undefined"
  THEN [name |-> Undefined, email |-> Undefined]
  ELSE [name |-> body.name, email |-> body.email]

\* crypto.randomUUID() on its (n+1)-th call.
randomUUID(n) == UUIDs[n + 1]

Init ==
  /\ users = <<>>
  /\ uuidCalls = 0
  /\ req = NoRequest
  /\ res = Empty(0)
  /\ created = {}
  /\ deleted = {}
  /\ prevCreated = NoUser

\* History bookkeeping shared by every handler.
Track(newReq) ==
  /\ req' = newReq
  /\ prevCreated' =
       IF req.method = "POST" /\ res.status = 201 THEN res.body.json ELSE NoUser

\* GET /users/:id
GetResponse(us, id) ==
  IF find(us, id) = NoUser
  THEN notFound("user not found")
  ELSE Json(200, find(us, id))

Get(id) ==
  /\ Track(Request("GET", id, NoBody))
  /\ res' = GetResponse(users, id)
  /\ UNCHANGED <<users, uuidCalls, created, deleted>>

\* GET /
Root ==
  /\ Track(Request("ROOT", "", NoBody))
  /\ res' = Text(200, "Hello World!")
  /\ UNCHANGED <<users, uuidCalls, created, deleted>>

\* ---------------------------------------------------------------------
\* POST /users
\* ---------------------------------------------------------------------
\* !name || !email
Invalid(d) == ~Truthy(d.name) \/ ~Truthy(d.email)

\* A plausible slip: the email used as the natural key.
PostUserEmailId(n, name, email) ==
  [id |-> email.repr, name |-> name, email |-> email]

\* const user = { id: randomUUID(), name, email }
PostUser(n, name, email) ==
  [id |-> randomUUID(n), name |-> name, email |-> email]

\* A plausible slip: users.concat(user), which leaves `users` as it was.
concat(us, u) == us

\* users.push(user)
push(us, u) == Append(us, u)

PostStore(us, n, body) ==
  LET d == destructure(body) IN
  IF Invalid(d) THEN us ELSE push(us, PostUser(n, d.name, d.email))

PostResponse(n, body) ==
  LET d == destructure(body) IN
  IF Invalid(d)
  THEN badRequest("name and email are required")
  ELSE Json(201, PostUser(n, d.name, d.email))

Post(body) ==
  /\ Invalid(destructure(body)) \/ uuidCalls < MaxIds
  /\ Track(Request("POST", "", body))
  /\ users' = PostStore(users, uuidCalls, body)
  /\ res' = PostResponse(uuidCalls, body)
  /\ uuidCalls' = IF Invalid(destructure(body)) THEN uuidCalls ELSE uuidCalls + 1
  /\ created' = IF res'.status = 201
                THEN created \cup {res'.body.json.id} ELSE created
  /\ deleted' = IF res'.status = 201
                THEN deleted \ {res'.body.json.id} ELSE deleted

\* ---------------------------------------------------------------------
\* PUT /users/:id
\* ---------------------------------------------------------------------
\* A plausible slip: the two fields written to each other's key.
PutUserSwapped(old, name, email) == [old EXCEPT !.name = email, !.email = name]

\* { ...old, name, email }
PutUser(old, name, email) == [old EXCEPT !.name = name, !.email = email]

\* A plausible slip: the updated record is pushed instead of assigned.
assignPush(us, idx, u) == Append(us, u)

\* A plausible slip: users.splice(idx, 0, u), which inserts and removes nothing.
assignInsert(us, idx, u) ==
  SubSeq(us, 1, idx) \o <<u>> \o SubSeq(us, idx + 1, Len(us))

\* users[idx] = u
assign(us, idx, u) == [us EXCEPT ![idx + 1] = u]

PutStore(us, id, body) ==
  LET d == destructure(body)
      idx == findIndex(us, id)
  IN IF Invalid(d) THEN us
     ELSE IF idx = -1 THEN us
     ELSE assign(us, idx, PutUser(us[idx + 1], d.name, d.email))

\* A plausible slip: the existence lookup done before the field check.
PutResponseLookupFirst(us, id, body) ==
  LET d == destructure(body)
      idx == findIndex(us, id)
  IN IF idx = -1 THEN notFound("user not found")
     ELSE IF Invalid(d) THEN badRequest("name and email are required")
     ELSE Json(200, PutStore(us, id, body)[idx + 1])

PutResponse(us, id, body) ==
  LET d == destructure(body)
      idx == findIndex(us, id)
  IN IF Invalid(d) THEN badRequest("name and email are required")
     ELSE IF idx = -1 THEN notFound("user not found")
     ELSE Json(200, PutStore(us, id, body)[idx + 1])

Put(id, body) ==
  /\ Track(Request("PUT", id, body))
  /\ users' = PutStore(users, id, body)
  /\ res' = PutResponse(users, id, body)
  /\ UNCHANGED <<uuidCalls, created, deleted>>

\* ---------------------------------------------------------------------
\* DELETE /users/:id
\* ---------------------------------------------------------------------
\* A plausible slip: users.splice(idx), which drops the whole tail.
spliceTail(us, idx, count) == SubSeq(us, 1, idx)

\* A plausible slip: users.slice(idx, 1), which does not mutate `users`.
slice(us, idx, count) == us

\* users.splice(idx, count): the array without count elements from idx on.
splice(us, idx, count) ==
  SubSeq(us, 1, idx) \o SubSeq(us, idx + count + 1, Len(us))

DeleteStore(us, id) ==
  LET idx == findIndex(us, id)
  IN IF idx = -1 THEN us ELSE splice(us, idx, 1)

DeleteResponse(us, id) ==
  IF findIndex(us, id) = -1 THEN notFound("user not found") ELSE Empty(204)

Delete(id) ==
  /\ Track(Request("DELETE", id, NoBody))
  /\ users' = DeleteStore(users, id)
  /\ res' = DeleteResponse(users, id)
  /\ deleted' = IF res'.status = 204 THEN deleted \cup {id} ELSE deleted
  /\ UNCHANGED <<uuidCalls, created>>

Next ==
  \/ \E body \in Bodies : Post(body)
  \/ \E id \in PathIds : Get(id)
  \/ \E id \in PathIds, body \in Bodies : Put(id, body)
  \/ \E id \in PathIds : Delete(id)
  \/ Root

Spec == Init /\ [][Next]_vars

\* ---------------------------------------------------------------------
\* Properties
\* ---------------------------------------------------------------------
InStore(us, id) == \E i \in 1..Len(us) : us[i].id = id

NonEmptyText(v) == v.type = "string" /\ v.repr # ""

MissingOrEmpty(v) == v.type = "undefined" \/ (v.type = "string" /\ v.repr = "")

ReqName == destructure(req.body).name

ReqEmail == destructure(req.body).email

\* C1: no two users in the store have the same id.
UniqueIds ==
  \A i, j \in 1..Len(users) : i # j => users[i].id # users[j].id

UniqueIdsWitness ==
  /\ Len(users) >= 2
  /\ req.method = "PUT"
  /\ res.status = 200
  /\ deleted # {}

\* C2: a POST with a non-empty name and email answers 201 with a non-empty
\* id that no earlier POST returned, deleted users' ids included.
NeverReusedId ==
  [][(/\ req'.method = "POST"
      /\ NonEmptyText(destructure(req'.body).name)
      /\ NonEmptyText(destructure(req'.body).email))
       => (/\ res'.status = 201
           /\ res'.body.json.id # ""
           /\ res'.body.json.id \notin created)]_vars

NeverReusedIdWitness ==
  /\ req.method = "POST"
  /\ res.status = 201
  /\ Cardinality(created) >= 2
  /\ res.body.json.id \notin deleted
  /\ deleted # {}

\* C3: an id is in the store iff a POST answered 201 with it and no later
\* DELETE of it answered 204.
StoredIffCreatedNotDeleted ==
  \A id \in PathIds \cup created \cup {users[i].id : i \in 1..Len(users)} :
    InStore(users, id) <=> (id \in created /\ id \notin deleted)

StoredIffCreatedNotDeletedWitness ==
  /\ users # <<>>
  /\ deleted # {}
  /\ Cardinality(created) = Len(users) + Cardinality(deleted)

\* C4: a POST or PUT whose name or email is missing or empty answers 400
\* 'name and email are required', whether or not the path id is stored.
MissingFieldsGive400 ==
  (/\ req.method \in {"POST", "PUT"}
   /\ MissingOrEmpty(ReqName) \/ MissingOrEmpty(ReqEmail))
    => res = Json(400, [error |-> "name and email are required"])

MissingFieldsGive400Witness ==
  /\ req.method = "PUT"
  /\ ~InStore(users, req.id)
  /\ users # <<>>
  /\ MissingOrEmpty(ReqName) \/ MissingOrEmpty(ReqEmail)
  /\ res.status = 400

\* C5: a PUT with a non-empty name and email on a stored id answers 200
\* with the updated user, whose name and email are the new values and whose
\* id is unchanged; no PUT changes the id of any stored user.
PutUpdatesInPlace ==
  [][req'.method = "PUT"
       => (/\ \A i \in 1..Len(users) :
                i \in DOMAIN users' /\ users'[i].id = users[i].id
           /\ (/\ NonEmptyText(destructure(req'.body).name)
               /\ NonEmptyText(destructure(req'.body).email)
               /\ InStore(users, req'.id))
                => (/\ res'.status = 200
                    /\ res'.body.kind = "json"
                    /\ \E i \in 1..Len(users) :
                         /\ users[i].id = req'.id
                         /\ users'[i] = res'.body.json
                         /\ users'[i].id = req'.id
                         /\ users'[i].name = req'.body.name
                         /\ users'[i].email = req'.body.email))]_vars

PutUpdatesInPlaceWitness ==
  /\ req.method = "PUT"
  /\ res.status = 200
  /\ NonEmptyText(ReqName) /\ NonEmptyText(ReqEmail)
  /\ \E i \in 1..Len(users) :
       /\ i < Len(users)
       /\ users[i].id = req.id
       /\ users[i].name = req.body.name
       /\ users[i].email = req.body.email

\* C6: DELETE of a stored id answers 204 and every later GET of that id
\* answers 404 'user not found'; DELETE of an id not in the store answers
\* 404; GET of an id never created or already deleted answers 404.
DeleteThenNotFound ==
  [][/\ (req'.method = "DELETE" /\ InStore(users, req'.id))
          => (/\ res' = Empty(204)
              /\ req'.id \in deleted'
              /\ ~InStore(users', req'.id))
     /\ (req'.method = "DELETE" /\ ~InStore(users, req'.id))
          => res' = Json(404, [error |-> "user not found"])
     /\ (req'.method = "GET" /\ (req'.id \in deleted \/ req'.id \notin created))
          => res' = Json(404, [error |-> "user not found"])]_vars

DeleteThenNotFoundWitness ==
  /\ req.method = "GET"
  /\ req.id \in deleted
  /\ res.status = 404
  /\ users # <<>>

\* C7: a GET of a stored id answers 200 with that record's id, name and
\* email; issued right after a 201 POST with the id it returned, the body
\* is exactly the created user.
GetReturnsStored ==
  /\ (req.method = "GET" /\ InStore(users, req.id))
       => \E i \in 1..Len(users) :
            /\ users[i].id = req.id
            /\ res = Json(200, users[i])
  /\ (req.method = "GET" /\ prevCreated # NoUser /\ req.id = prevCreated.id)
       => res = Json(200, prevCreated)
  /\ (req.method = "POST" /\ res.status = 201)
       => (/\ res.body.json.name = req.body.name
           /\ res.body.json.email = req.body.email
           /\ users[Len(users)] = res.body.json)

GetReturnsStoredWitness ==
  /\ req.method = "GET"
  /\ prevCreated # NoUser
  /\ req.id = prevCreated.id
  /\ res.status = 200
  /\ Len(users) >= 2

\* C8: in the state a 200 PUT leaves, the same PUT again leaves the store
\* as it is and answers with the same body.
PutIdempotent ==
  (req.method = "PUT" /\ res.status = 200)
    => (/\ PutStore(users, req.id, req.body) = users
        /\ PutResponse(users, req.id, req.body) = res)

PutIdempotentWitness ==
  /\ req.method = "PUT"
  /\ res.status = 200
  /\ Len(users) = MaxIds
  /\ users[Len(users)].id = req.id

\* C9: every stored user's name and email are non-empty text.
StoredFieldsAreText ==
  \A i \in 1..Len(users) :
    NonEmptyText(users[i].name) /\ NonEmptyText(users[i].email)

\* C10: a 400, a 404 and any GET leave the store unchanged; a 200 PUT keeps
\* the length and every other record; a 204 DELETE removes exactly the
\* targeted record and keeps the rest in order; a 201 POST appends one.
FrameEffects ==
  [][/\ (res'.status \in {400, 404} \/ req'.method \in {"GET", "ROOT"})
          => users' = users
     /\ (req'.method = "PUT" /\ res'.status = 200)
          => (/\ Len(users') = Len(users)
              /\ \A i \in 1..Len(users) :
                   /\ users[i].id = req'.id => users'[i].id = req'.id
                   /\ users[i].id # req'.id => users'[i] = users[i])
     /\ (req'.method = "DELETE" /\ res'.status = 204)
          => \E k \in 1..Len(users) :
               /\ users[k].id = req'.id
               /\ users' = SubSeq(users, 1, k - 1)
                             \o SubSeq(users, k + 1, Len(users))
     /\ (req'.method = "POST" /\ res'.status = 201)
          => users' = Append(users, res'.body.json)]_vars

FrameEffectsWitness ==
  /\ req.method = "DELETE"
  /\ res.status = 204
  /\ Len(users) = 2
  /\ users[1].id = UUIDs[1]
  /\ users[2].id = UUIDs[3]

====
